---- MODULE Spec2Model ----
(***************************************************************************)
(* Model of the AI code reviewer GitHub Action: the script src/src/main.ts *)
(* and its older variant src/unnamed/part_000.                             *)
(*                                                                         *)
(* One run of main() is a process: it reads the event payload, fetches the *)
(* diff, drops the excluded files, lists the review comments already on    *)
(* the pull request, sends each chunk of each reviewable file to the       *)
(* completion endpoint, maps the returned review items to comments, drops  *)
(* duplicates and posts the rest one by one.  Every await of main() is a   *)
(* step of the process; a completion call is two steps, the request and    *)
(* its answer.  The older variant parses only fenced answers, lists        *)
(* nothing, drops nothing and posts all its comments as one review.        *)
(*                                                                         *)
(* Spec is one run of main.ts, SpecVariants one run of either script,      *)
(* SpecRerun a run of main.ts and a second run after it, SpecOverlap two   *)
(* runs of main.ts of which the second starts while the first is going.    *)
(*                                                                         *)
(* Strings whose content the code inspects (comment bodies, the claimed    *)
(* lineNumber, the exclude input and the paths it is matched against) are  *)
(* sequences of one-character strings, so that trim(), Number(), split()   *)
(* and minimatch() are computed, not assumed.                              *)
(***************************************************************************)
EXTENDS Integers, Sequences, FiniteSets, TLC

\* ------------------------------------------------------------------ bounds

\* Largest number of review items in one well-formed model response.
MaxItems == 2

\* ------------------------------------------------- JavaScript value helpers

\* Number() of a non-numeric string.  NaN === x is false for every x.
NaN == -1

\* The value of a missing property (an item without reviewComment).
undefined == <<"(undefined)">>

IsSpace(ch) == ch = " "

RECURSIVE trimStart(_)
trimStart(s) ==
    IF s = <<>> THEN s
    ELSE IF IsSpace(Head(s)) THEN trimStart(Tail(s)) ELSE s

RECURSIVE trimEnd(_)
trimEnd(s) ==
    IF s = <<>> THEN s
    ELSE IF IsSpace(s[Len(s)]) THEN trimEnd(SubSeq(s, 1, Len(s) - 1)) ELSE s

\* String.prototype.trim
trim(s) == trimEnd(trimStart(s))

Digits == <<"0", "1", "2", "3", "4", "5", "6", "7", "8", "9">>

IsDigit(ch) == \E d \in 1..10 : Digits[d] = ch

DigitValue(ch) == (CHOOSE d \in 1..10 : Digits[d] = ch) - 1

RECURSIVE DecimalValue(_)
DecimalValue(s) ==
    IF s = <<>> THEN 0
    ELSE 10 * DecimalValue(SubSeq(s, 1, Len(s) - 1)) + DigitValue(s[Len(s)])

\* Number(string): surrounding white space is ignored, the empty string is 0,
\* a decimal numeral is its value, anything else is NaN.
Number(s) ==
    LET t == trim(s) IN
    IF t = <<>> THEN 0
    ELSE IF \A i \in 1..Len(t) : IsDigit(t[i]) THEN DecimalValue(t)
    ELSE NaN

\* a === b on numbers
StrictEquals(a, b) == a # NaN /\ b # NaN /\ a = b

\* --------------------------------------------------------- parse-diff data

\* A Change of parse-diff: an added line carries ln (its new-side number), a
\* removed line carries ln (its old-side number), an unchanged context line
\* carries ln1 (old side) and ln2 (new side).  A field a kind does not carry
\* is 0 here and is never read: HasLn / HasLn2 are the code's "in" tests.
AddChange(n) == [type |-> "add", ln |-> n, ln1 |-> 0, ln2 |-> 0]

DeleteChange(n) == [type |-> "del", ln |-> n, ln1 |-> 0, ln2 |-> 0]

NormalChange(old, new) == [type |-> "normal", ln |-> 0, ln1 |-> old, ln2 |-> new]

HasLn(c) == c.type \in {"add", "del"}

HasLn2(c) == c.type = "normal"

\* hunk -5,2 +7,2: context 5->7, line 6 removed, line 8 added
ChunkA == [content |-> "@@ -5,2 +7,2 @@",
           changes |-> <<NormalChange(5, 7), DeleteChange(6), AddChange(8)>>]

\* hunk -20,1 +21,2: context 20->21, line 22 added
ChunkB == [content |-> "@@ -20,1 +21,2 @@",
           changes |-> <<NormalChange(20, 21), AddChange(22)>>]

\* the only hunk of a deleted file
ChunkGone == [content |-> "@@ -1,2 +0,0 @@",
              changes |-> <<DeleteChange(1), DeleteChange(2)>>]

FileOne == [to |-> "a.ts", chunks |-> <<ChunkA>>]

FileTwo == [to |-> "b.ts", chunks |-> <<ChunkA, ChunkB>>]

FileLock == [to |-> "yarn.lock", chunks |-> <<ChunkB>>]

FileDeleted == [to |-> "/dev/null", chunks |-> <<ChunkGone>>]

\* The diffs a pull request of the model can have (the result of parseDiff).
\* The empty list stands for an empty diff text.
Diffs == { <<>>, <<FileOne>>, <<FileDeleted, FileTwo>>, <<FileDeleted>> }

\* ------------------------------------------------ completion-endpoint data

\* A review item of the model's JSON: an object with a lineNumber string and
\* (when hasComment) a reviewComment string, or the JSON value null.
Item(lineNumber, reviewComment) ==
    [isNull |-> FALSE, lineNumber |-> lineNumber,
     hasComment |-> TRUE, reviewComment |-> reviewComment]

ItemWithoutComment(lineNumber) ==
    [isNull |-> FALSE, lineNumber |-> lineNumber,
     hasComment |-> FALSE, reviewComment |-> <<>>]

ItemNull ==
    [isNull |-> TRUE, lineNumber |-> <<>>, hasComment |-> FALSE, reviewComment |-> <<>>]

\* The review items a well-formed answer about a chunk is built from.
ItemPool(chunk) ==
    IF chunk = ChunkA
    THEN { Item(<<"7">>, <<" ", "X">>),   \* new side of the context line, padded body
           Item(<<"7">>, <<"Y">>),        \* same line, another body
           Item(<<"6">>, <<"X">>),        \* the removed line (old side)
           Item(<<"5">>, <<"Y">>),        \* old side of the context line
           Item(<<"8">>, <<" ">>) }       \* the added line, blank body
    ELSE { Item(<<"2", "2">>, <<"Y">>),   \* the added line
           Item(<<"2", "0">>, <<"X">>) }  \* old side of the context line

SeqsUpTo(S, n) == UNION { [1..k -> S] : k \in 0..n }

\* The value of the "reviews" key.
ReviewsList(items) == [kind |-> "list", items |-> items]

ReviewsString == [kind |-> "string", items |-> <<>>]

ReviewsNull == [kind |-> "null", items |-> <<>>]

\* What the completion call gives back: a failure (ok = FALSE), or a message
\* whose trimmed content is empty, is text that JSON.parse rejects, or is a
\* JSON document; fenced says whether that text sits in a ```json block.
\* json is "null" for the JSON value null, else "object"; hasReviews says
\* whether the object has a "reviews" key.
Completion(ok, fenced, text, json, hasReviews, reviews) ==
    [ok |-> ok, fenced |-> fenced, text |-> text, json |-> json,
     hasReviews |-> hasReviews, reviews |-> reviews]

ApiFailure == Completion(FALSE, FALSE, "empty", "null", FALSE, ReviewsNull)

EmptyContent == Completion(TRUE, FALSE, "empty", "null", FALSE, ReviewsNull)

EmptyFence == Completion(TRUE, TRUE, "empty", "null", FALSE, ReviewsNull)

Malformed(fenced) == Completion(TRUE, fenced, "malformed", "null", FALSE, ReviewsNull)

JsonNull == Completion(TRUE, FALSE, "json", "null", FALSE, ReviewsNull)

NoReviewsKey(fenced) == Completion(TRUE, fenced, "json", "object", FALSE, ReviewsNull)

Reviews(fenced, reviews) == Completion(TRUE, fenced, "json", "object", TRUE, reviews)

\* Answers that are no usable review: the chunk must contribute nothing.
UnusableAnswers ==
    { ApiFailure, EmptyContent, EmptyFence, Malformed(TRUE), Malformed(FALSE),
      JsonNull, NoReviewsKey(TRUE), NoReviewsKey(FALSE) }

\* Answers that parse and have a "reviews" key, but no list of review items.
IllFormedAnswers ==
    { Reviews(TRUE, ReviewsString),
      Reviews(TRUE, ReviewsNull),
      Reviews(TRUE, ReviewsList(<<ItemNull>>)),
      Reviews(TRUE, ReviewsList(<<Item(<<"4">>, <<"Y">>), ItemNull>>)),
      Reviews(TRUE, ReviewsList(<<ItemWithoutComment(<<"7">>)>>)),
      Reviews(TRUE, ReviewsList(<<ItemWithoutComment(<<"9">>)>>)) }

\* Well-formed answers: lists of review items, fenced; plus one raw (unfenced)
\* answer, one with a padded numeral and one with a non-numeric lineNumber.
WellFormedAnswers(chunk) ==
    { Reviews(TRUE, ReviewsList(items)) : items \in SeqsUpTo(ItemPool(chunk), MaxItems) }
    \cup { Reviews(FALSE, ReviewsList(<<Item(<<"8">>, <<"Y">>)>>)),
           Reviews(TRUE, ReviewsList(<<Item(<<" ", "8">>, <<"X", " ">>)>>)),
           Reviews(TRUE, ReviewsList(<<Item(<<"x">>, <<"X">>)>>)) }

Responses(chunk) == UnusableAnswers \cup IllFormedAnswers \cup WellFormedAnswers(chunk)

\* ------------------------------------------------------- the Review Client

\* What getAIResponse returns: null, undefined, or the value of "reviews".
Null == [kind |-> "null", items |-> <<>>]

Undefined == [kind |-> "undefined", items |-> <<>>]

\* getAIResponse whose catch of a parse failure hands back the text it could
\* not parse instead of null.
getAIResponse_ReturnsText(completion) ==
    IF ~completion.ok THEN Null
    ELSE IF completion.text = "empty" THEN Null
    ELSE IF completion.text = "malformed" THEN ReviewsString
    ELSE IF completion.json = "null" THEN Null
    ELSE IF ~completion.hasReviews THEN Undefined
    ELSE completion.reviews

\* getAIResponse (src/src/main.ts): a failed call is caught and gives null; the
\* text of the ```json block if there is one, else the whole trimmed content,
\* is parsed; empty text, text JSON.parse rejects, and the JSON value null
\* (reading .reviews of null throws inside the try) give null; an object gives
\* its "reviews" property, undefined when it has none.
getAIResponse(completion) ==
    IF ~completion.ok THEN Null
    ELSE IF completion.text = "empty" THEN Null
    ELSE IF completion.text = "malformed" THEN Null
    ELSE IF completion.json = "null" THEN Null
    ELSE IF ~completion.hasReviews THEN Undefined
    ELSE completion.reviews

\* if (aiResponse): null and undefined are falsy; a list (also the empty
\* list) and a non-empty string are truthy.
Truthy(aiResponse) == aiResponse.kind \in {"list", "string"}

\* getAIResponse of the older script (src/unnamed/part_000): only the text of
\* a ```json block is parsed; content without such a block gives null.
getAIResponse_part_000(completion) ==
    IF ~completion.ok THEN Null
    ELSE IF ~completion.fenced THEN Null
    ELSE IF completion.text = "empty" THEN Null
    ELSE IF completion.text = "malformed" THEN Null
    ELSE IF completion.json = "null" THEN Null
    ELSE IF ~completion.hasReviews THEN Undefined
    ELSE completion.reviews

\* ------------------------------------------------------ the Comment Mapper

Comment(body, path, line) == [body |-> body, path |-> path, line |-> line]

\* console.error of createComment: the claimed lineNumber and the file.
LineNotFound(lineNumber, file) ==
    [kind |-> "lineNotFound", path |-> file.to, lineNumber |-> lineNumber,
     comment |-> Comment(<<>>, "", 0)]

\* Matches that also accepts the old-side number of a context line.
Matches_EitherSide(c, lineNumber) ==
    \/ HasLn(c) /\ StrictEquals(c.ln, lineNumber)
    \/ HasLn2(c) /\ StrictEquals(c.ln2, lineNumber)
    \/ HasLn2(c) /\ StrictEquals(c.ln1, lineNumber)

\* The predicate of chunk.changes.find.
Matches(c, lineNumber) ==
    \/ HasLn(c) /\ StrictEquals(c.ln, lineNumber)
    \/ HasLn2(c) /\ StrictEquals(c.ln2, lineNumber)

\* chunk.changes.find: the index of the first matching change, 0 when none.
FindChange(chunk, lineNumber) ==
    LET hits == { i \in 1..Len(chunk.changes) : Matches(chunk.changes[i], lineNumber) }
    IN  IF hits = {} THEN 0 ELSE CHOOSE i \in hits : \A j \in hits : i <= j

\* commentLine taking the old-side number of a context line.
commentLine_OldSide(change) ==
    IF HasLn(change) THEN change.ln
    ELSE IF HasLn2(change) THEN change.ln1
    ELSE 0

\* "ln" in change ? change.ln : "ln2" in change ? change.ln2 : 0
commentLine(change) ==
    IF HasLn(change) THEN change.ln
    ELSE IF HasLn2(change) THEN change.ln2
    ELSE 0

\* The outcome of mapping some items: the comments returned, the diagnostics
\* written, and whether a TypeError was thrown (then nothing is returned).
Mapped(comments, log, threw) == [comments |-> comments, log |-> log, threw |-> threw]

\* The flatMap callback of createComment, item after item.  An item that is
\* null throws when its lineNumber is read; the diagnostics of the items
\* before it have been written by then.
RECURSIVE MapItems(_, _, _, _)
MapItems(file, chunk, items, acc) ==
    IF items = <<>> THEN acc
    ELSE
        LET item == Head(items)
            rest == Tail(items)
        IN
        IF file.to = "" THEN MapItems(file, chunk, rest, acc)
        ELSE IF item.isNull THEN Mapped(<<>>, acc.log, TRUE)
        ELSE
            LET lineNumber == Number(item.lineNumber)
                found == FindChange(chunk, lineNumber)
            IN
            IF found = 0
            THEN MapItems(file, chunk, rest,
                          Mapped(acc.comments,
                                 Append(acc.log, LineNotFound(item.lineNumber, file)),
                                 FALSE))
            ELSE MapItems(file, chunk, rest,
                          Mapped(Append(acc.comments,
                                        Comment(IF item.hasComment
                                                THEN item.reviewComment ELSE undefined,
                                                file.to,
                                                commentLine(chunk.changes[found]))),
                                 acc.log, FALSE))

\* createComment: aiResponses.flatMap(...).  A truthy value that is no list
\* (a string) has no flatMap: the call throws.
createComment(file, chunk, aiResponses) ==
    IF aiResponses.kind # "list" THEN Mapped(<<>>, <<>>, TRUE)
    ELSE MapItems(file, chunk, aiResponses.items, Mapped(<<>>, <<>>, FALSE))

\* The "Optimized Code" block the older script appends to the review comment
\* (one element stands for the block and the code in it).
OptimizedCodeBlock == << "**Optimized Code:**" >>

\* The template literal of the body: an item without reviewComment gives the
\* text "undefined".
BodyWithCode(reviewComment) ==
    (IF reviewComment = undefined
     THEN <<"u", "n", "d", "e", "f", "i", "n", "e", "d">>
     ELSE reviewComment) \o OptimizedCodeBlock

\* createComment of the older script: the same matching, the body followed
\* by the optimized code.
createComment_part_000(file, chunk, aiResponses) ==
    LET mapped == createComment(file, chunk, aiResponses) IN
    Mapped([i \in 1..Len(mapped.comments) |->
                Comment(BodyWithCode(mapped.comments[i].body),
                        mapped.comments[i].path, mapped.comments[i].line)],
           mapped.log, mapped.threw)

\* ------------------------------------------------------- the Deduplicator

\* duplicate with the bodies compared as they are, not trimmed.
duplicate_Untrimmed(existingComments, comment) ==
    \E i \in 1..Len(existingComments) :
        /\ existingComments[i].path = comment.path
        /\ existingComments[i].line = comment.line
        /\ existingComments[i].body = comment.body

\* The predicate of existingComments.some in analyzeCode.
duplicate(existingComments, comment) ==
    \E i \in 1..Len(existingComments) :
        /\ existingComments[i].path = comment.path
        /\ existingComments[i].line = comment.line
        /\ trim(existingComments[i].body) = trim(comment.body)

\* comment.body.trim() is reached, and throws for a body that is undefined,
\* when an existing comment has the comment's path and line.
duplicateThrows(existingComments, comment) ==
    /\ comment.body = undefined
    /\ \E i \in 1..Len(existingComments) :
           /\ existingComments[i].path = comment.path
           /\ existingComments[i].line = comment.line

DuplicateSkipped(comment) ==
    [kind |-> "duplicate", path |-> comment.path, lineNumber |-> <<>>,
     comment |-> comment]

\* The inner loop of analyzeCode over newComments: acc.comments are the
\* comments pushed, acc.log the "Duplicate comment found" lines.
RECURSIVE Deduplicate(_, _, _)
Deduplicate(existingComments, newComments, acc) ==
    IF newComments = <<>> THEN acc
    ELSE
        LET comment == Head(newComments) IN
        IF duplicateThrows(existingComments, comment)
        THEN Mapped(<<>>, acc.log, TRUE)
        ELSE IF duplicate(existingComments, comment)
        THEN Deduplicate(existingComments, Tail(newComments),
                         Mapped(acc.comments, Append(acc.log, DuplicateSkipped(comment)),
                                FALSE))
        ELSE Deduplicate(existingComments, Tail(newComments),
                         Mapped(Append(acc.comments, comment), acc.log, FALSE))

\* ------------------------------------------------------------ the Publisher

\* The filter without its test of the body.
IsValid_IgnoresBody(comment) ==
    comment.path # "" /\ comment.line > 0

\* The filter of createReviewComment.
IsValid(comment) ==
    comment.path # "" /\ comment.line > 0 /\ trim(comment.body) # <<>>

validComments(comments) == SelectSeq(comments, IsValid)

\* The filter reads comment.body.trim(): it throws for an undefined body of a
\* comment with a path and a positive line.
FilterThrows(comments) ==
    \E i \in 1..Len(comments) :
        comments[i].path # "" /\ comments[i].line > 0 /\ comments[i].body = undefined

\* ------------------------------------------------------------ GitHub data

\* The number of review comments one listReviewComments call returns when the
\* request names no per_page and no page (GitHub's default page size).
PerPage == 30

\* A review comment as GitHub stores it.
Stored(path, line, body, commit_id, side) ==
    [path |-> path, line |-> line, hasLine |-> TRUE, body |-> body,
     commit_id |-> commit_id, side |-> side]

\* n comments of other reviewers, on lines 1..n of a file the diffs do not touch.
Fillers(n) == [i \in 1..n |-> Stored("README.md", i, <<"Z">>, "sha0", "RIGHT")]

\* The review comments a pull request can hold when a run starts.
Stores ==
    { <<>>,
      << Stored("a.ts", 7, <<"X", " ">>, "sha0", "RIGHT") >>,
      Fillers(PerPage) \o << Stored("a.ts", 7, <<"X">>, "sha0", "RIGHT") >> }

\* The event payload file: unreadable, not JSON, JSON without the repository,
\* or a pull_request event with its action and commit identifiers.
Event(payload, action) ==
    [payload |-> payload, action |-> action,
     before |-> "sha1", after |-> "sha2", head |-> "sha3"]

Events ==
    { Event("missing", "opened"), Event("malformed", "opened"),
      Event("norepository", "opened"),
      Event("ok", "opened"), Event("ok", "synchronize"), Event("ok", "closed") }

\* The values of the "exclude" input: unset (getInput returns the empty
\* string), one pattern, two patterns with blanks around the comma.
ExcludeUnset == <<>>
ExcludeLock == <<"*", ".", "l", "o", "c", "k">>
ExcludeTwo == <<"b", ".", "t", "s", " ", ",", " ", "*", ".", "l", "o", "c", "k">>

\* The diffs and the exclude inputs a run can be given.
Inputs ==
    [diff : Diffs, exclude : {ExcludeUnset}]
    \cup [diff : {<<FileLock>>}, exclude : {ExcludeUnset, ExcludeLock}]
    \cup [diff : {<<FileLock, FileOne>>, <<FileDeleted, FileTwo, FileLock>>},
          exclude : {ExcludeTwo}]

\* String.prototype.split(","): the pieces between the commas; one empty
\* piece for the empty string.
RECURSIVE split(_)
split(s) ==
    IF \A i \in 1..Len(s) : s[i] # ","
    THEN << s >>
    ELSE LET i == CHOOSE j \in 1..Len(s) : s[j] = "," /\ \A h \in 1..(j - 1) : s[h] # ","
         IN  << SubSeq(s, 1, i - 1) >> \o split(SubSeq(s, i + 1, Len(s)))

\* main: core.getInput("exclude").split(",").map((s) => s.trim()).
excludePatterns(input) ==
    LET pieces == split(input) IN [i \in 1..Len(pieces) |-> trim(pieces[i])]

\* The characters of the paths of the model.
PathChars(path) ==
    CASE path = "a.ts" -> <<"a", ".", "t", "s">>
      [] path = "b.ts" -> <<"b", ".", "t", "s">>
      [] path = "yarn.lock" -> <<"y", "a", "r", "n", ".", "l", "o", "c", "k">>
      [] path = "/dev/null" -> <<"/", "d", "e", "v", "/", "n", "u", "l", "l">>
      [] OTHER -> <<>>

\* A glob of literal characters, "?" and "*" against a path: "*" stands for
\* any run of characters other than "/", "?" for one of them.
RECURSIVE Glob(_, _)
Glob(pattern, path) ==
    IF pattern = <<>> THEN path = <<>>
    ELSE IF Head(pattern) = "*"
    THEN IF Glob(Tail(pattern), path) THEN TRUE
         ELSE path # <<>> /\ Head(path) # "/" /\ Glob(pattern, Tail(path))
    ELSE IF Head(pattern) = "?"
    THEN path # <<>> /\ Head(path) # "/" /\ Glob(Tail(pattern), Tail(path))
    ELSE path # <<>> /\ Head(path) = Head(pattern) /\ Glob(Tail(pattern), Tail(path))

\* minimatch taken as the comparison of the two strings.
minimatch_Literal(path, pattern) == PathChars(path) = pattern

\* minimatch(path, pattern) with the default options, for patterns without
\* braces, "**", negation and character classes: the empty pattern matches
\* the empty path only; "*" and "?" at the start do not match a leading dot.
minimatch(path, pattern) ==
    LET chars == PathChars(path) IN
    IF pattern = <<>> THEN chars = <<>>
    ELSE IF chars # <<>> /\ Head(chars) = "." /\ Head(pattern) \in {"*", "?"} THEN FALSE
    ELSE Glob(pattern, chars)

\* parsedDiff.filter of main.
FilterDiff(parsedDiff, patterns) ==
    LET keep(file) ==
            ~ \E i \in 1..Len(patterns) : minimatch(file.to, patterns[i])
    IN  SelectSeq(parsedDiff, keep)

\* The (file, chunk) pairs analyzeCode sends for review, in the order of its
\* two loops; deleted files are skipped.
RECURSIVE Work(_)
Work(files) ==
    IF files = <<>> THEN <<>>
    ELSE
        LET file == Head(files) IN
        (IF file.to = "/dev/null" THEN <<>>
         ELSE [j \in 1..Len(file.chunks) |-> [file |-> file, chunk |-> file.chunks[j]]])
        \o Work(Tail(files))

\* getExistingComments: the first page of the stored comments, those with a
\* line, each as (path, line, body).
getExistingComments(stored) ==
    LET page == SubSeq(stored, 1, IF Len(stored) < PerPage THEN Len(stored) ELSE PerPage)
        hasLine(c) == c.hasLine
        kept == SelectSeq(page, hasLine)
    IN  [i \in 1..Len(kept) |-> Comment(kept[i].body, kept[i].path, kept[i].line)]

\* ------------------------------------------------------------------ state

\* The runs of the action on the one pull request of the model.
Runs == {1, 2}

VARIABLES
    store,       \* GitHub: the review comments on the pull request, oldest first
    prDiff,      \* GitHub: the parsed diff the diff requests return
    exclude,     \* the workflow: the "exclude" input of the action
    variant,     \* per run: the script the workflow runs
    pc,          \* per run: where main() stands
    exitCode,    \* per run: the exit status, once pc is "exited"
    event,       \* per run: the event payload file
    commit_id,   \* per run: main's commit_id
    work,        \* per run: the (file, chunk) pairs of filteredDiff, in loop order
    existing,    \* per run: existingComments
    idx,         \* per run: the pair analyzeCode handles next
    comments,    \* per run: analyzeCode's comments
    valid,       \* per run: createReviewComment's validComments
    k,           \* per run: the valid comment createReviewComment posts next
    requests,    \* per run: the requests made so far, in order
    posts,       \* per run: the createReviewComment requests made, with their outcome
    trace,       \* per run: per chunk handled, the answer and what became of it
    log          \* per run: the diagnostics written

vars == <<store, prDiff, exclude, variant, pc, exitCode, event, commit_id, work,
          existing, idx, comments, valid, k, requests, posts, trace, log>>

NoEvent == Event("none", "none")

Request(api, base, head) == [api |-> api, base |-> base, head |-> head]

\* No run has started.
InitRuns ==
    /\ pc = [r \in Runs |-> "idle"]
    /\ exitCode = [r \in Runs |-> 0]
    /\ event = [r \in Runs |-> NoEvent]
    /\ variant = [r \in Runs |-> ""]
    /\ commit_id = [r \in Runs |-> ""]
    /\ work = [r \in Runs |-> <<>>]
    /\ existing = [r \in Runs |-> <<>>]
    /\ idx = [r \in Runs |-> 1]
    /\ comments = [r \in Runs |-> <<>>]
    /\ valid = [r \in Runs |-> <<>>]
    /\ k = [r \in Runs |-> 1]
    /\ requests = [r \in Runs |-> <<>>]
    /\ posts = [r \in Runs |-> <<>>]
    /\ trace = [r \in Runs |-> <<>>]
    /\ log = [r \in Runs |-> <<>>]

Init ==
    /\ store \in Stores
    /\ \E input \in Inputs : prDiff = input.diff /\ exclude = input.exclude
    /\ InitRuns

\* The run ends: return from main (status 0) or main().catch (status 1).
Exit(r, status) ==
    /\ pc' = [pc EXCEPT ![r] = "exited"]
    /\ exitCode' = [exitCode EXCEPT ![r] = status]

Goto(r, label) ==
    /\ pc' = [pc EXCEPT ![r] = label]
    /\ UNCHANGED exitCode

Note(kind) ==
    [kind |-> kind, path |-> "", lineNumber |-> <<>>, comment |-> Comment(<<>>, "", 0)]

\* ---------------------------------------------------------------- actions

\* The workflow is triggered: the runner writes the event payload file.
Trigger(r) ==
    /\ r = 1
    /\ pc[r] = "idle"
    /\ \E ev \in Events : event' = [event EXCEPT ![r] = ev]
    /\ variant' = [variant EXCEPT ![r] = "main.ts"]
    /\ Goto(r, "getPRDetails")
    /\ UNCHANGED <<store, prDiff, exclude, commit_id, work, existing, idx, comments, valid, k,
                   requests, posts, trace, log>>

\* The workflow of a repository that still has the older script is triggered.
Trigger_part_000(r) ==
    /\ r = 1
    /\ pc[r] = "idle"
    /\ \E ev \in Events : event' = [event EXCEPT ![r] = ev]
    /\ variant' = [variant EXCEPT ![r] = "part_000"]
    /\ Goto(r, "getPRDetails")
    /\ UNCHANGED <<store, prDiff, exclude, commit_id, work, existing, idx, comments, valid,
                   k, requests, posts, trace, log>>

\* Only reading the payload file can throw.
PayloadThrows_OnlyUnreadable(ev) == ev.payload = "missing"

\* getPRDetails up to its request: readFileSync throws on a missing file,
\* JSON.parse on text that is not JSON, repository.owner on a payload
\* without repository.
PayloadThrows(ev) == ev.payload # "ok"

\* getPRDetails: read and parse the payload, then pulls.get.  A payload that
\* cannot be read or parsed, or has no repository, throws before any request.
GetPRDetails(r) ==
    /\ pc[r] = "getPRDetails"
    /\ \E ok \in BOOLEAN :
        IF PayloadThrows(event[r])
        THEN /\ Exit(r, 1)
             /\ UNCHANGED requests
        ELSE /\ requests' = [requests EXCEPT ![r] = Append(@, Request("pulls.get", "", ""))]
             /\ IF ok THEN Goto(r, "getDiff") ELSE Exit(r, 1)
    /\ UNCHANGED <<store, prDiff, exclude, event, variant, commit_id, work, existing, idx, comments, valid,
                   k, posts, trace, log>>

\* The diff request main makes for a supported event: the diff of the pull
\* request when it was opened, the comparison of the two commits of the push
\* when it was synchronized.
DiffRequest(ev) ==
    IF ev.action = "opened"
    THEN Request("pulls.get.diff", "", "")
    ELSE Request("repos.compareCommits", ev.before, ev.after)

\* The commit of the pull request head, whatever the event.
CommitOf_PullRequestHead(ev) == ev.head

\* The commit main attributes the comments to: pull_request.head.sha when the
\* pull request was opened, the pushed commit when it was synchronized.
CommitOf(ev) == IF ev.action = "opened" THEN ev.head ELSE ev.after

\* Every action taken as one main handles.
Supported_AnyAction(ev) == TRUE

\* The actions main handles; for any other it logs "Unsupported event" and
\* returns.
Supported(ev) == ev.action \in {"opened", "synchronize"}

\* main, from reading eventData to filteredDiff: the diff request the action
\* names, "No diff found" for an empty diff, parseDiff and the exclude filter.
\* The older script has no commit_id and goes on to analyzeCode.
GetDiff(r) ==
    /\ pc[r] = "getDiff"
    /\ \E ok \in BOOLEAN :
        LET supported == Supported(event[r])
            request == DiffRequest(event[r])
            sha == CommitOf(event[r])
        IN
        IF ~supported
        THEN /\ Exit(r, 0)
             /\ log' = [log EXCEPT ![r] = Append(@, Note("unsupportedEvent"))]
             /\ UNCHANGED <<requests, commit_id, work>>
        ELSE /\ requests' = [requests EXCEPT ![r] = Append(@, request)]
             /\ IF ~ok
                THEN /\ Exit(r, 1)
                     /\ UNCHANGED <<log, commit_id, work>>
                ELSE /\ commit_id' = [commit_id EXCEPT
                                           ![r] = IF variant[r] = "main.ts" THEN sha ELSE @]
                     /\ IF prDiff = <<>>
                        THEN /\ Exit(r, 0)
                             /\ log' = [log EXCEPT ![r] = Append(@, Note("noDiff"))]
                             /\ UNCHANGED work
                        ELSE /\ Goto(r, IF variant[r] = "main.ts"
                                         THEN "getExistingComments" ELSE "analyzeCode")
                             /\ work' = [work EXCEPT
                                         ![r] = Work(FilterDiff(prDiff,
                                                                excludePatterns(exclude)))]
                             /\ UNCHANGED log
    /\ UNCHANGED <<store, prDiff, exclude, event, variant, existing, idx, comments, valid, k, posts, trace>>

\* main: await getExistingComments(...).
GetExistingComments(r) ==
    /\ pc[r] = "getExistingComments"
    /\ requests' = [requests EXCEPT ![r] = Append(@, Request("pulls.listReviewComments", "", ""))]
    /\ \E ok \in BOOLEAN :
        IF ok
        THEN /\ existing' = [existing EXCEPT ![r] = getExistingComments(store)]
             /\ Goto(r, "analyzeCode")
        ELSE /\ Exit(r, 1)
             /\ UNCHANGED existing
    /\ UNCHANGED <<store, prDiff, exclude, event, variant, commit_id, work, idx, comments, valid, k, posts,
                   trace, log>>

\* The answers the completion endpoint can give run r for its idx-th chunk.
\* A re-run on the same diff gets the answer the first run got.
Answers(r) ==
    IF r # 1 /\ idx[r] <= Len(trace[1])
    THEN { trace[1][idx[r]].completion }
    ELSE Responses(work[r][idx[r]].chunk)

\* What analyzeCode did with one chunk: the answer, whether createComment was
\* called, its outcome, and the outcome of the duplicate loop.
Handled(file, chunk, completion, called, mapped, kept) ==
    [file |-> file, chunk |-> chunk, completion |-> completion, called |-> called,
     mapped |-> mapped, kept |-> kept]

Nothing == Mapped(<<>>, <<>>, FALSE)

\* The next pass of the inner loop of analyzeCode begins although the
\* completion of the last one is still awaited.
SendPrompt_NoAwait(r) ==
    /\ pc[r] \in {"analyzeCode", "getAIResponse"}
    /\ Len(SelectSeq(requests[r], LAMBDA q : q.api = "chat.completions.create"))
           < Len(work[r])
    /\ LET sent == Len(SelectSeq(requests[r],
                                 LAMBDA q : q.api = "chat.completions.create"))
           file == work[r][sent + 1].file
           chunk == work[r][sent + 1].chunk
       IN  requests' = [requests EXCEPT
                           ![r] = Append(@, Request("chat.completions.create",
                                                    file.to, chunk.content))]
    /\ Goto(r, "getAIResponse")
    /\ UNCHANGED <<store, prDiff, exclude, event, variant, commit_id, work, existing, idx,
                   comments, valid, k, posts, trace, log>>

\* The inner loop of analyzeCode, up to the await: createPrompt for the next
\* chunk and the request of getAIResponse to the completion endpoint.
SendPrompt(r) ==
    /\ pc[r] = "analyzeCode"
    /\ idx[r] <= Len(work[r])
    /\ LET file == work[r][idx[r]].file
           chunk == work[r][idx[r]].chunk
       IN  requests' = [requests EXCEPT
                           ![r] = Append(@, Request("chat.completions.create",
                                                    file.to, chunk.content))]
    /\ Goto(r, "getAIResponse")
    /\ UNCHANGED <<store, prDiff, exclude, event, variant, commit_id, work, existing, idx,
                   comments, valid, k, posts, trace, log>>

\* The inner loop of analyzeCode, from the await on: the completion call
\* returns or fails, getAIResponse gives the reviews or null, then
\* createComment and the duplicate check of each new comment.  A TypeError
\* thrown by createComment or by the duplicate check leaves analyzeCode and
\* main: the run exits with status 1.
AnalyzeChunk(r) ==
    /\ pc[r] = "getAIResponse"
    /\ variant[r] = "main.ts"
    /\ \E completion \in Answers(r) :
        LET file == work[r][idx[r]].file
            chunk == work[r][idx[r]].chunk
            aiResponse == getAIResponse(completion)
            called == Truthy(aiResponse)
            mapped == IF called THEN createComment(file, chunk, aiResponse) ELSE Nothing
            kept == IF mapped.threw THEN Nothing
                    ELSE Deduplicate(existing[r], mapped.comments, Nothing)
            threw == mapped.threw \/ kept.threw
        IN
        /\ trace' = [trace EXCEPT
                        ![r] = Append(@, Handled(file, chunk, completion, called,
                                                 mapped, kept))]
        /\ log' = [log EXCEPT ![r] = @ \o mapped.log \o kept.log]
        /\ IF threw
           THEN /\ Exit(r, 1)
                /\ UNCHANGED <<comments, idx>>
           ELSE /\ Goto(r, "analyzeCode")
                /\ comments' = [comments EXCEPT ![r] = @ \o kept.comments]
                /\ idx' = [idx EXCEPT ![r] = @ + 1]
    /\ UNCHANGED <<store, prDiff, exclude, event, variant, commit_id, work, existing, valid,
                   k, requests, posts>>

\* The same in the older script: its getAIResponse and createComment, and no
\* duplicate check (every comment createComment returns is kept).
AnalyzeChunk_part_000(r) ==
    /\ pc[r] = "getAIResponse"
    /\ variant[r] = "part_000"
    /\ \E completion \in Answers(r) :
        LET file == work[r][idx[r]].file
            chunk == work[r][idx[r]].chunk
            aiResponse == getAIResponse_part_000(completion)
            called == Truthy(aiResponse)
            mapped == IF called THEN createComment_part_000(file, chunk, aiResponse)
                      ELSE Nothing
            kept == IF mapped.threw THEN Nothing
                    ELSE Mapped(mapped.comments, <<>>, FALSE)
        IN
        /\ trace' = [trace EXCEPT
                        ![r] = Append(@, Handled(file, chunk, completion, called,
                                                 mapped, kept))]
        /\ log' = [log EXCEPT ![r] = @ \o mapped.log]
        /\ IF mapped.threw
           THEN /\ Exit(r, 1)
                /\ UNCHANGED <<comments, idx>>
           ELSE /\ Goto(r, "analyzeCode")
                /\ comments' = [comments EXCEPT ![r] = @ \o kept.comments]
                /\ idx' = [idx EXCEPT ![r] = @ + 1]
    /\ UNCHANGED <<store, prDiff, exclude, event, variant, commit_id, work, existing, valid,
                   k, requests, posts>>

\* main going on to createReviewComment with the comments analyzeCode has
\* gathered so far, whether chunks remain or not.
EndAnalysis_BeforeLastChunk(r) ==
    /\ pc[r] = "analyzeCode"
    /\ variant[r] = "main.ts"
    /\ IF comments[r] = <<>>
       THEN /\ Exit(r, 0)
            /\ UNCHANGED <<valid, log>>
       ELSE IF FilterThrows(comments[r])
       THEN /\ Exit(r, 1)
            /\ UNCHANGED <<valid, log>>
       ELSE IF validComments(comments[r]) = <<>>
       THEN /\ Exit(r, 0)
            /\ log' = [log EXCEPT ![r] = Append(@, Note("noValidComments"))]
            /\ UNCHANGED valid
       ELSE /\ Goto(r, "createReviewComment")
            /\ valid' = [valid EXCEPT ![r] = validComments(comments[r])]
            /\ UNCHANGED log
    /\ UNCHANGED <<store, prDiff, exclude, event, variant, commit_id, work, existing, idx,
                   comments, k, requests, posts, trace>>

\* analyzeCode returns; main calls createReviewComment when there are
\* comments; createReviewComment filters them and returns when none is valid.
\* The filter throws on a comment whose body is undefined.
EndAnalysis(r) ==
    /\ pc[r] = "analyzeCode"
    /\ variant[r] = "main.ts"
    /\ idx[r] > Len(work[r])
    /\ IF comments[r] = <<>>
       THEN /\ Exit(r, 0)
            /\ UNCHANGED <<valid, log>>
       ELSE IF FilterThrows(comments[r])
       THEN /\ Exit(r, 1)
            /\ UNCHANGED <<valid, log>>
       ELSE IF validComments(comments[r]) = <<>>
       THEN /\ Exit(r, 0)
            /\ log' = [log EXCEPT ![r] = Append(@, Note("noValidComments"))]
            /\ UNCHANGED valid
       ELSE /\ Goto(r, "createReviewComment")
            /\ valid' = [valid EXCEPT ![r] = validComments(comments[r])]
            /\ UNCHANGED log
    /\ UNCHANGED <<store, prDiff, exclude, event, variant, commit_id, work, existing, idx, comments, k,
                   requests, posts, trace>>

\* The request createReviewComment sends for a comment.
Post(comment, sha, ok) ==
    [body |-> comment.body, path |-> comment.path, line |-> comment.line,
     side |-> "RIGHT", commit_id |-> sha, ok |-> ok]

PublishError(comment) ==
    [kind |-> "publishError", path |-> comment.path, lineNumber |-> <<>>,
     comment |-> comment]

\* The loop of createReviewComment without its try/catch: a failed request
\* leaves main, and the run exits with status 1.
CreateReviewComment_Uncaught(r) ==
    /\ pc[r] = "createReviewComment"
    /\ k[r] <= Len(valid[r])
    /\ \E ok \in BOOLEAN :
        LET comment == valid[r][k[r]] IN
        /\ requests' = [requests EXCEPT
                           ![r] = Append(@, Request("pulls.createReviewComment", "", ""))]
        /\ posts' = [posts EXCEPT ![r] = Append(@, Post(comment, commit_id[r], ok))]
        /\ IF ok
           THEN /\ store' = Append(store, Stored(comment.path, comment.line, comment.body,
                                                 commit_id[r], "RIGHT"))
                /\ IF k[r] = Len(valid[r]) THEN Exit(r, 0)
                   ELSE Goto(r, "createReviewComment")
           ELSE /\ Exit(r, 1)
                /\ UNCHANGED store
    /\ k' = [k EXCEPT ![r] = @ + 1]
    /\ UNCHANGED <<prDiff, exclude, event, variant, commit_id, work, existing, idx, comments, valid, trace,
                   log>>

\* One pass of the loop of createReviewComment: the request succeeds and
\* GitHub stores the comment, or it fails and the catch logs the request data.
CreateReviewComment(r) ==
    /\ pc[r] = "createReviewComment"
    /\ k[r] <= Len(valid[r])
    /\ \E ok \in BOOLEAN :
        LET comment == valid[r][k[r]] IN
        /\ requests' = [requests EXCEPT
                           ![r] = Append(@, Request("pulls.createReviewComment", "", ""))]
        /\ posts' = [posts EXCEPT ![r] = Append(@, Post(comment, commit_id[r], ok))]
        /\ IF ok
           THEN /\ store' = Append(store, Stored(comment.path, comment.line, comment.body,
                                                 commit_id[r], "RIGHT"))
                /\ UNCHANGED log
           ELSE /\ log' = [log EXCEPT ![r] = Append(@, PublishError(comment))]
                /\ UNCHANGED store
    /\ k' = [k EXCEPT ![r] = @ + 1]
    /\ IF k[r] = Len(valid[r]) THEN Exit(r, 0) ELSE Goto(r, "createReviewComment")
    /\ UNCHANGED <<prDiff, exclude, event, variant, commit_id, work, existing, idx, comments, valid, trace>>

\* analyzeCode of the older script returns; its main calls createReviewComment
\* when there are comments.
EndAnalysis_part_000(r) ==
    /\ pc[r] = "analyzeCode"
    /\ variant[r] = "part_000"
    /\ idx[r] > Len(work[r])
    /\ IF comments[r] = <<>> THEN Exit(r, 0) ELSE Goto(r, "createReview")
    /\ UNCHANGED <<store, prDiff, exclude, event, variant, commit_id, work, existing, idx,
                   comments, valid, k, requests, posts, trace, log>>

\* The comment of a review as the request carries it: path, line and body,
\* no side and no commit.
ReviewPost(comment, ok) ==
    [body |-> comment.body, path |-> comment.path, line |-> comment.line,
     side |-> "", commit_id |-> "", ok |-> ok]

\* createReviewComment of the older script: one createReview request with
\* all the comments.  GitHub stores them all (on the latest commit, on the
\* right side) or rejects the review; a rejection leaves main, and the run
\* exits with status 1.
CreateReview_part_000(r) ==
    /\ pc[r] = "createReview"
    /\ \E ok \in BOOLEAN :
        /\ requests' = [requests EXCEPT
                           ![r] = Append(@, Request("pulls.createReview", "", ""))]
        /\ posts' = [posts EXCEPT
                        ![r] = [j \in 1..Len(comments[r]) |->
                                    ReviewPost(comments[r][j], ok)]]
        /\ IF ok
           THEN /\ store' = store \o [j \in 1..Len(comments[r]) |->
                                         Stored(comments[r][j].path, comments[r][j].line,
                                                comments[r][j].body, "latest", "RIGHT")]
                /\ Exit(r, 0)
           ELSE /\ UNCHANGED store
                /\ Exit(r, 1)
    /\ UNCHANGED <<prDiff, exclude, event, variant, commit_id, work, existing, idx,
                   comments, valid, k, trace, log>>

\* The workflow is triggered again, after the first run has ended, on the
\* same pull request with the same event payload.
Retrigger(r) ==
    /\ r = 2
    /\ pc[r] = "idle"
    /\ pc[1] = "exited"
    /\ event' = [event EXCEPT ![r] = event[1]]
    /\ variant' = [variant EXCEPT ![r] = variant[1]]
    /\ Goto(r, "getPRDetails")
    /\ UNCHANGED <<store, prDiff, exclude, commit_id, work, existing, idx, comments, valid, k,
                   requests, posts, trace, log>>

Step(r) ==
    \/ GetPRDetails(r)
    \/ GetDiff(r)
    \/ GetExistingComments(r)
    \/ SendPrompt(r)
    \/ AnalyzeChunk(r)
    \/ EndAnalysis(r)
    \/ CreateReviewComment(r)

\* One run of the action.
Next == \E r \in Runs : Trigger(r) \/ Step(r)

Spec == Init /\ [][Next]_vars

\* The steps only the older script takes.
Step_part_000(r) ==
    \/ AnalyzeChunk_part_000(r)
    \/ EndAnalysis_part_000(r)
    \/ CreateReview_part_000(r)

\* One run of either script.
NextVariants ==
    \E r \in Runs : Trigger(r) \/ Trigger_part_000(r) \/ Step(r) \/ Step_part_000(r)

SpecVariants == Init /\ [][NextVariants]_vars

\* A run, and once it has ended a second run on the same event.
InitRerun ==
    /\ store \in { <<>>, Fillers(PerPage - 1), Fillers(PerPage) }
    /\ prDiff = <<FileOne>>
    /\ exclude = ExcludeUnset
    /\ InitRuns

NextRerun == \E r \in Runs : Trigger(r) \/ Retrigger(r) \/ Step(r)

SpecRerun == InitRerun /\ [][NextRerun]_vars

\* The workflow is triggered again on the same pull request while the first
\* run is still going (a workflow without a concurrency group).
TriggerOverlapping(r) ==
    /\ r = 2
    /\ pc[r] = "idle"
    /\ pc[1] \notin {"idle", "exited"}
    /\ event' = [event EXCEPT ![r] = event[1]]
    /\ variant' = [variant EXCEPT ![r] = variant[1]]
    /\ Goto(r, "getPRDetails")
    /\ UNCHANGED <<store, prDiff, exclude, commit_id, work, existing, idx, comments, valid,
                   k, requests, posts, trace, log>>

\* Two runs on a pull request without review comments, the second started
\* while the first is going.
InitOverlap ==
    /\ store = <<>>
    /\ prDiff = <<FileLock>>
    /\ exclude = ExcludeUnset
    /\ InitRuns

NextOverlap == \E r \in Runs : Trigger(r) \/ TriggerOverlapping(r) \/ Step(r)

SpecOverlap == InitOverlap /\ [][NextOverlap]_vars

\* ------------------------------------------------- vocabulary of the claims

\* The members of a sequence.
Range(s) == { s[i] : i \in 1..Len(s) }

\* Same (path, line, trimmed body).
SameComment(a, b) ==
    a.path = b.path /\ a.line = b.line /\ trim(a.body) = trim(b.body)

\* Comment c equals, in (path, line, trimmed body), a comment of the list run
\* r fetched.
InLedger(r, c) == \E e \in Range(existing[r]) : SameComment(e, c)

RECURSIVE Flatten(_)
Flatten(ss) == IF ss = <<>> THEN <<>> ELSE Head(ss) \o Flatten(Tail(ss))

\* The comment a create-comment request carries.
Payload(post) == Comment(post.body, post.path, post.line)

\* The old-side and the new-side line numbers of the changes of a chunk.
OldSide(chunk) ==
    { c.ln : c \in { d \in Range(chunk.changes) : d.type = "del" } }
    \cup { c.ln1 : c \in { d \in Range(chunk.changes) : d.type = "normal" } }

NewSide(chunk) ==
    { c.ln : c \in { d \in Range(chunk.changes) : d.type = "add" } }
    \cup { c.ln2 : c \in { d \in Range(chunk.changes) : d.type = "normal" } }

\* The handled chunks whose answer was a list of review items, all objects:
\* the chunks for which createComment ran and returned.
IsItemList(t) ==
    /\ t.called
    /\ getAIResponse(t.completion).kind = "list"
    /\ \A item \in Range(getAIResponse(t.completion).items) : ~item.isNull

ItemsOf(t) == getAIResponse(t.completion).items

Ended(r) == pc[r] = "exited"

\* ---------------------------------------------------------------------- C1

\* C1: the comments analyzeCode hands to the publisher are exactly the
\* generated comments that equal no comment of the fetched list in (path,
\* line, trimmed body), chunk by chunk and in order; no request carries a
\* comment that equals one of the fetched list.
C1_DedupAgainstLedger ==
    \A r \in Runs :
        LET fresh(c) == ~InLedger(r, c)
            done == { i \in 1..Len(trace[r]) :
                          ~trace[r][i].mapped.threw /\ ~trace[r][i].kept.threw }
        IN
        /\ \A i \in done :
               trace[r][i].kept.comments = SelectSeq(trace[r][i].mapped.comments, fresh)
        /\ comments[r] =
               Flatten([i \in 1..Len(trace[r]) |->
                            IF i \in done
                            THEN SelectSeq(trace[r][i].mapped.comments, fresh)
                            ELSE <<>>])
        /\ \A p \in Range(posts[r]) : ~InLedger(r, Payload(p))

\* A run that dropped a generated comment equal to a listed one up to white
\* space, and published one that differs from it only in its body.
C1_Witness ==
    \E r \in Runs : \E t \in Range(trace[r]) : \E e \in Range(existing[r]) :
        /\ Ended(r)
        /\ \E c \in Range(t.mapped.comments) :
               SameComment(e, c) /\ c.body # e.body /\ c \notin Range(t.kept.comments)
        /\ \E p \in Range(posts[r]) :
               /\ p.path = e.path /\ p.line = e.line
               /\ trim(p.body) # trim(e.body)
               /\ p.ok

\* ---------------------------------------------------------------------- C2

\* The first run ended with status 0 and every request it made to create a
\* comment succeeded; the second run started after that, on the same event
\* and diff, and got the same answers.
CleanRerun ==
    /\ Ended(1) /\ exitCode[1] = 0
    /\ \A p \in Range(posts[1]) : p.ok
    /\ pc[2] # "idle"
    /\ event[2] = event[1]
    /\ \A i \in 1..Len(trace[2]) :
           i <= Len(trace[1]) /\ trace[2][i].completion = trace[1][i].completion

\* C2: a re-run after a run that posted all its comments makes no request to
\* create a comment, however many comments the pull request holds.
C2_RerunPostsNothing == CleanRerun => posts[2] = <<>>

\* The same, for a pull request whose comments all fit the first page of the
\* listing when the second run fetches them.
C2_RerunPostsNothingWithinOnePage ==
    (CleanRerun /\ Len(store) <= PerPage) => posts[2] = <<>>

\* ---------------------------------------------------------------------- C3

\* Every review comment stored on the pull request, as (path, line, body).
AllStored == [i \in 1..Len(store) |-> Comment(store[i].body, store[i].path, store[i].line)]

\* C3: the list a run fetches holds every review comment stored on the pull
\* request at the time of the request.
C3_FetchesAllComments ==
    [][\A r \in Runs :
          (pc[r] = "getExistingComments" /\ pc'[r] = "analyzeCode")
              => existing'[r] = AllStored]_vars

\* ---------------------------------------------------------------------- C4

\* Every line number a change of the chunk carries, on either side.
AllLines(chunk) == OldSide(chunk) \cup NewSide(chunk)

\* The body createComment gives the comment of an item.
BodyOf(item) == IF item.hasComment THEN item.reviewComment ELSE undefined

\* C4: for a list of review items, every comment createComment returns has
\* the file's path, and the line and body of one of the items, the line being
\* the number its lineNumber denotes and a line number carried by a change of
\* the chunk; every item yields one comment or one diagnostic; an item whose
\* lineNumber denotes no line of the chunk (or no number) yields no comment
\* and a diagnostic with the file and the lineNumber as claimed.
C4_NoFabricatedComment ==
    \A r \in Runs : \A t \in Range(trace[r]) :
        IsItemList(t) =>
            /\ ~t.mapped.threw
            /\ Len(t.mapped.comments) + Len(t.mapped.log) = Len(ItemsOf(t))
            /\ \A c \in Range(t.mapped.comments) :
                   /\ c.path = t.file.to
                   /\ c.line \in AllLines(t.chunk)
                   /\ \E item \in Range(ItemsOf(t)) :
                          c.line = Number(item.lineNumber) /\ c.body = BodyOf(item)
            /\ \A item \in Range(ItemsOf(t)) :
                   Number(item.lineNumber) \notin AllLines(t.chunk) =>
                       /\ \A c \in Range(t.mapped.comments) :
                              c.line # Number(item.lineNumber)
                       /\ LineNotFound(item.lineNumber, t.file) \in Range(t.mapped.log)
                       /\ LineNotFound(item.lineNumber, t.file) \in Range(log[r])

\* A run that mapped an item to a comment and dropped an item whose
\* lineNumber is no number, with the diagnostic.
C4_Witness ==
    \E r \in Runs : \E t1, t2 \in Range(trace[r]) :
        /\ Ended(r)
        /\ IsItemList(t1) /\ t1.mapped.comments # <<>>
        /\ IsItemList(t2)
        /\ \E item \in Range(ItemsOf(t2)) :
               /\ Number(item.lineNumber) = NaN
               /\ t2.mapped.comments = <<>>
               /\ LineNotFound(item.lineNumber, t2.file) \in Range(log[r])

\* ---------------------------------------------------------------------- C5

\* C5: every comment the mapper emits is anchored to the new-side line
\* number of a change of its chunk, and so is every comment published.
C5_AnchoredToNewSide ==
    \A r \in Runs :
        /\ \A t \in Range(trace[r]) :
               IsItemList(t) =>
                   \A c \in Range(t.mapped.comments) : c.line \in NewSide(t.chunk)
        /\ \A p \in Range(posts[r]) :
               /\ p.line > 0
               /\ \E t \in Range(trace[r]) :
                      p.path = t.file.to /\ p.line \in NewSide(t.chunk)

\* ---------------------------------------------------------------------- C6

\* The item yielded a comment: createComment wrote no diagnostic for its
\* lineNumber.
Yields(t, item) == LineNotFound(item.lineNumber, t.file) \notin Range(t.mapped.log)

\* The line numbers the prompt shows for the changes of a chunk, which are
\* the fields ln and ln2: the new side of an added and of a context line, the
\* old side of a removed line.
PromptLines(chunk) ==
    NewSide(chunk) \cup { c.ln : c \in { d \in Range(chunk.changes) : d.type = "del" } }

\* C6 as claimed: an item yields a comment exactly when its claimed line
\* number is the old-side or the new-side number of a change of the chunk.
C6_MatchesEitherSide ==
    \A r \in Runs : \A t \in Range(trace[r]) :
        IsItemList(t) =>
            \A item \in Range(ItemsOf(t)) :
                Yields(t, item) <=> Number(item.lineNumber) \in AllLines(t.chunk)

\* C6 as amended: an item yields a comment exactly when its claimed line
\* number is the new-side number of an added or context line or the old-side
\* number of a removed line of the chunk; the comments are as many as such
\* items.
C6_MatchesPromptLine ==
    \A r \in Runs : \A t \in Range(trace[r]) :
        IsItemList(t) =>
            /\ \A item \in Range(ItemsOf(t)) :
                   Yields(t, item) <=> Number(item.lineNumber) \in PromptLines(t.chunk)
            /\ Len(t.mapped.comments) =
                   Cardinality({ i \in 1..Len(ItemsOf(t)) :
                                     Number(ItemsOf(t)[i].lineNumber) \in PromptLines(t.chunk) })

\* A chunk for which an item claiming the old side of a context line was
\* dropped and an item claiming a removed line yielded a comment.
C6_Witness ==
    \E r \in Runs : \E t \in Range(trace[r]) :
        /\ IsItemList(t)
        /\ \E item \in Range(ItemsOf(t)) :
               /\ Number(item.lineNumber) \in OldSide(t.chunk) \ PromptLines(t.chunk)
               /\ ~Yields(t, item)
        /\ \E item \in Range(ItemsOf(t)) : \E d \in Range(t.chunk.changes) :
               /\ d.type = "del" /\ d.ln = Number(item.lineNumber)
               /\ Yields(t, item)
               /\ \E c \in Range(t.mapped.comments) : c.line = d.ln

\* ---------------------------------------------------------------------- C7

\* The completion call failed, or its answer is empty, is text that is no
\* JSON, or is JSON without a "reviews" key.
IsUnusable(completion) ==
    \/ ~completion.ok
    \/ completion.text = "empty"
    \/ completion.text = "malformed"
    \/ completion.text = "json" /\ ~completion.hasReviews

\* A comment the publisher's filter lets through, as the spec words it:
\* a path, a positive line, a body that is not blank.
PassesFilter(c) == c.path # "" /\ c.line > 0 /\ trim(c.body) # <<>>

\* The comments the chunks other than the i-th contributed, in order.
KeptElsewhere(r, i) ==
    Flatten([j \in 1..Len(trace[r]) |->
                 IF j = i THEN <<>> ELSE trace[r][j].kept.comments])

Sent(r) == [j \in 1..Len(posts[r]) |-> Payload(posts[r][j])]

\* C7: a chunk whose completion call failed or whose answer is unusable
\* contributes no comment and throws nothing; the loop goes on to the next
\* chunk, which is sent while the run lasts; a run that exits with status 1
\* does so for another chunk or for the publisher's filter; a run that exits
\* with status 0 has sent the valid comments of the other chunks.
C7_ChunkFailureIsRecoverable ==
    \A r \in Runs : \A i \in 1..Len(trace[r]) :
        IsUnusable(trace[r][i].completion) =>
            /\ ~trace[r][i].called
            /\ trace[r][i].mapped = Nothing /\ trace[r][i].kept = Nothing
            /\ i < Len(trace[r]) \/ idx[r] = i + 1
            /\ (i = Len(trace[r]) /\ i < Len(work[r])) =>
                   pc[r] \in {"analyzeCode", "getAIResponse"}
            /\ (Ended(r) /\ exitCode[r] = 1) =>
                   \/ \E j \in 1..Len(trace[r]) :
                          j # i /\ (trace[r][j].mapped.threw \/ trace[r][j].kept.threw)
                   \/ FilterThrows(comments[r])
            /\ (Ended(r) /\ exitCode[r] = 0) =>
                   Sent(r) = SelectSeq(KeptElsewhere(r, i), PassesFilter)

\* A run whose completion call failed for the first chunk, and which went on
\* to publish a comment on the second chunk and exited with status 0.
C7_Witness ==
    \E r \in Runs :
        /\ Ended(r) /\ exitCode[r] = 0
        /\ Len(trace[r]) >= 2
        /\ ~trace[r][1].completion.ok
        /\ trace[r][2].kept.comments # <<>>
        /\ \E p \in Range(posts[r]) : p.ok /\ Payload(p) \in Range(trace[r][2].kept.comments)

\* ---------------------------------------------------------------------- C8

\* The answer parses and has a "reviews" key, but "reviews" is no list, or an
\* item is null, or an item whose lineNumber matches has no reviewComment.
IsIllFormed(t) ==
    /\ t.completion.ok /\ t.completion.text = "json" /\ t.completion.hasReviews
    /\ \/ t.completion.reviews.kind # "list"
       \/ \E item \in Range(t.completion.reviews.items) :
              \/ item.isNull
              \/ ~item.hasComment /\ Number(item.lineNumber) \in PromptLines(t.chunk)

\* C8: an ill-formed answer never makes the run throw or exit with status 1,
\* and no comment with an undefined body is sent.
C8_IllFormedAnswerNeverAborts ==
    \A r \in Runs :
        /\ \A t \in Range(trace[r]) :
               IsIllFormed(t) =>
                   /\ ~t.mapped.threw /\ ~t.kept.threw
                   /\ ~(Ended(r) /\ exitCode[r] = 1)
        /\ \A p \in Range(posts[r]) : p.body # undefined

\* ---------------------------------------------------------------------- C9

IsPublishError(entry) == entry.kind = "publishError"

IsFailed(post) == ~post.ok

IsCreateRequest(request) == request.api = "pulls.createReviewComment"

\* C9: the requests to create a comment are, in order and once each, the
\* valid comments of the list; while comments remain the loop is still
\* running, whatever failed; at the end every valid comment has been tried
\* and the status is 0; the failed requests, and only they, are logged with
\* their comment, in order.
C9_PublishFailuresTolerated ==
    \A r \in Runs :
        LET failed == SelectSeq(posts[r], IsFailed)
            errors == SelectSeq(log[r], IsPublishError)
        IN
        /\ Len(posts[r]) <= Len(valid[r])
        /\ Sent(r) = SubSeq(valid[r], 1, Len(posts[r]))
        /\ Len(SelectSeq(requests[r], IsCreateRequest)) = Len(posts[r])
        /\ valid[r] # <<>> => valid[r] = SelectSeq(comments[r], PassesFilter)
        /\ (valid[r] # <<>> /\ Len(posts[r]) < Len(valid[r])) =>
               pc[r] = "createReviewComment"
        /\ (valid[r] # <<>> /\ Ended(r)) => (Sent(r) = valid[r] /\ exitCode[r] = 0)
        /\ [j \in 1..Len(errors) |-> errors[j].comment]
               = [j \in 1..Len(failed) |-> Payload(failed[j])]

\* A run whose first request to create a comment failed and whose second
\* succeeded, ended with status 0.
C9_Witness ==
    \E r \in Runs :
        /\ Ended(r) /\ exitCode[r] = 0
        /\ Len(posts[r]) >= 2
        /\ ~posts[r][1].ok /\ posts[r][2].ok
        /\ \E entry \in Range(log[r]) :
               IsPublishError(entry) /\ entry.comment = Payload(posts[r][1])

\* --------------------------------------------------------------------- C10

\* C10: every request to create a comment carries a path, a positive line, a
\* body that is not blank and side RIGHT; a generated comment that fails one
\* of the three is in no request; when no generated comment passes, no
\* request is made.
C10_OnlyValidCommentsSent ==
    \A r \in Runs :
        /\ \A p \in Range(posts[r]) :
               p.path # "" /\ p.line > 0 /\ trim(p.body) # <<>> /\ p.side = "RIGHT"
        /\ \A c \in Range(comments[r]) :
               ~PassesFilter(c) => \A p \in Range(posts[r]) : Payload(p) # c
        /\ (\A c \in Range(comments[r]) : ~PassesFilter(c)) =>
               /\ posts[r] = <<>>
               /\ \A request \in Range(requests[r]) : ~IsCreateRequest(request)
        /\ Len(SelectSeq(requests[r], IsCreateRequest)) = Len(posts[r])

\* A run that generated a comment with a blank body and a valid one, and sent
\* the valid one only.
C10_Witness ==
    \E r \in Runs :
        /\ Ended(r)
        /\ \E c \in Range(comments[r]) : trim(c.body) = <<>> /\ c.path # "" /\ c.line > 0
        /\ posts[r] # <<>>
        /\ Len(posts[r]) < Len(comments[r])

\* --------------------------------------------------------------------- C11

IsDiffRequest(request) == request.api \in {"pulls.get.diff", "repos.compareCommits"}

\* C11: a run on a synchronize event makes one compare-commits request, from
\* the payload's before commit to its after commit, and no request for the
\* diff of the pull request, and every create-comment request carries the
\* after commit; a run on an opened event makes one request for the diff of
\* the pull request and every create-comment request carries the payload's
\* head commit of the pull request.
C11_CommitAttribution ==
    \A r \in Runs :
        LET diffs == SelectSeq(requests[r], IsDiffRequest) IN
        /\ Len(diffs) <= 1
        /\ posts[r] # <<>> => Len(diffs) = 1
        /\ event[r].action = "synchronize" =>
               /\ \A request \in Range(diffs) :
                      /\ request.api = "repos.compareCommits"
                      /\ request.base = event[r].before
                      /\ request.head = event[r].after
               /\ \A p \in Range(posts[r]) : p.commit_id = event[r].after
        /\ event[r].action = "opened" =>
               /\ \A request \in Range(diffs) : request.api = "pulls.get.diff"
               /\ \A p \in Range(posts[r]) : p.commit_id = event[r].head

\* A run on a synchronize event that compared the two commits and published
\* a comment.
C11_Witness ==
    \E r \in Runs :
        /\ Ended(r)
        /\ event[r].action = "synchronize"
        /\ \E request \in Range(requests[r]) : request.api = "repos.compareCommits"
        /\ \E p \in Range(posts[r]) : p.ok /\ p.commit_id = event[r].after

\* --------------------------------------------------------------------- C12

\* The run's event is a pull request event with an action main does not
\* handle.
Unsupported(r) ==
    event[r].payload = "ok" /\ event[r].action \notin {"opened", "synchronize"}

\* Requests for a diff, for the list of review comments, for a completion or
\* to create a comment.
IsReviewRequest(request) ==
    request.api \in {"pulls.get.diff", "repos.compareCommits", "pulls.listReviewComments",
                     "chat.completions.create", "pulls.createReviewComment",
                     "pulls.createReview"}

IsUnsupportedNote(entry) == entry.kind = "unsupportedEvent"

\* C12 as stated: a run on an event whose action is neither opened nor
\* synchronize logs, ends with status 0 and makes no diff request, no
\* list-comments request, no completion request and no create request.
C12_UnsupportedExitsZero ==
    \A r \in Runs :
        Unsupported(r) =>
            /\ \A request \in Range(requests[r]) : ~IsReviewRequest(request)
            /\ Ended(r) =>
                   /\ exitCode[r] = 0
                   /\ \E entry \in Range(log[r]) : IsUnsupportedNote(entry)

\* C12, amended: a run on an event whose action is neither opened nor
\* synchronize makes no diff request, no list-comments request, no completion
\* request and no create request; its one request is the metadata request of
\* getPRDetails, and it ends with status 0 and the "Unsupported event" log
\* when that request succeeded, with status 1 and no log when it failed.
C12_UnsupportedMakesNoReviewRequest ==
    \A r \in Runs :
        Unsupported(r) =>
            /\ \A request \in Range(requests[r]) : ~IsReviewRequest(request)
            /\ posts[r] = <<>> /\ trace[r] = <<>>
            /\ pc[r] \in {"getPRDetails", "getDiff", "exited"}
            /\ Ended(r) =>
                   /\ requests[r] = << Request("pulls.get", "", "") >>
                   /\ IF exitCode[r] = 0
                      THEN log[r] = << Note("unsupportedEvent") >>
                      ELSE exitCode[r] = 1 /\ log[r] = <<>>

\* A run on a closed pull request that logged the unsupported event and
\* ended with status 0.
C12_Witness ==
    \E r \in Runs :
        /\ Ended(r) /\ exitCode[r] = 0
        /\ event[r].action = "closed"
        /\ \E entry \in Range(log[r]) : IsUnsupportedNote(entry)

\* --------------------------------------------------------------------- C14

\* The payload file is missing, is not JSON, or has no repository.
BadPayload(r) == event[r].payload \in {"missing", "malformed", "norepository"}

\* C14: a run whose event payload is missing, is not valid JSON or lacks the
\* repository ends with a non-zero status having made no request at all: no
\* diff request, no completion request, no create request.
C14_BadPayloadIsFatal ==
    \A r \in Runs :
        BadPayload(r) =>
            /\ requests[r] = <<>>
            /\ posts[r] = <<>> /\ trace[r] = <<>>
            /\ pc[r] \in {"getPRDetails", "exited"}
            /\ Ended(r) => exitCode[r] # 0

\* A run on a payload without repository, ended with status 1.
C14_Witness ==
    \E r \in Runs :
        /\ Ended(r) /\ exitCode[r] = 1
        /\ event[r].payload = "norepository"

\* --------------------------------------------------------------------- C13

\* The paths of the model the exclude input names, read off the input by
\* hand: "*.lock" names yarn.lock, "b.ts , *.lock" names b.ts and yarn.lock.
ExcludedPaths ==
    IF exclude = ExcludeLock THEN {"yarn.lock"}
    ELSE IF exclude = ExcludeTwo THEN {"b.ts", "yarn.lock"}
    ELSE {}

\* A file of the diff that is not deleted and that no exclude pattern names.
Reviewable(path) == path # "/dev/null" /\ path \notin ExcludedPaths

IsCompletionRequest(request) == request.api = "chat.completions.create"

\* C13: every completion request is for a chunk of a file of the diff that is
\* not deleted and matches no exclude pattern; no create-comment request
\* carries the path of a deleted or excluded file; and when the diff has no
\* such file the comment list is empty and the run makes no completion
\* request and no create-comment request.
C13_OnlyReviewableFilesAnalysed ==
    \A r \in Runs :
        /\ \A request \in Range(requests[r]) :
               IsCompletionRequest(request) =>
                   \E i \in 1..Len(prDiff) :
                       /\ prDiff[i].to = request.base
                       /\ Reviewable(prDiff[i].to)
                       /\ \E j \in 1..Len(prDiff[i].chunks) :
                              prDiff[i].chunks[j].content = request.head
        /\ \A p \in Range(posts[r]) : Reviewable(p.path)
        /\ \A c \in Range(comments[r]) : Reviewable(c.path)
        /\ (\A i \in 1..Len(prDiff) : ~Reviewable(prDiff[i].to)) =>
               /\ comments[r] = <<>> /\ posts[r] = <<>>
               /\ \A request \in Range(requests[r]) :
                      ~IsCompletionRequest(request) /\ ~IsCreateRequest(request)

\* A run on a diff with a lock file and a.ts, the lock file excluded, that
\* published a comment on a.ts.
C13_Witness ==
    \E r \in Runs :
        /\ Ended(r)
        /\ exclude = ExcludeTwo
        /\ \E i \in 1..Len(prDiff) : prDiff[i].to = "yarn.lock"
        /\ \E p \in Range(posts[r]) : p.ok /\ p.path = "a.ts"

\* A run on a diff whose files are all deleted or excluded, ended with
\* status 0 after listing the comments.
C13_WitnessNothingReviewable ==
    \E r \in Runs :
        /\ Ended(r) /\ exitCode[r] = 0
        /\ Len(prDiff) = 3
        /\ \A i \in 1..Len(prDiff) : ~Reviewable(prDiff[i].to)
        /\ \E request \in Range(requests[r]) : request.api = "pulls.listReviewComments"

\* --------------------------------------------------------------------- C15

\* The content of the answer, in a ```json block or not, is a JSON object
\* whose "reviews" is a list of review items.
IsReviewDocument(completion) ==
    /\ completion.ok /\ completion.text = "json" /\ completion.json = "object"
    /\ completion.hasReviews /\ completion.reviews.kind = "list"
    /\ \A item \in Range(completion.reviews.items) : ~item.isNull

\* The items of the answer reached createComment: each gave a comment or the
\* diagnostic of a line that is not in the chunk.
ItemsReachedMapper(t) ==
    /\ t.called /\ ~t.mapped.threw
    /\ Len(t.mapped.comments) + Len(t.mapped.log) = Len(t.completion.reviews.items)

\* C15: in either script, an answer whose content is a JSON object with a
\* list of review items yields those items, whether the object sits in a
\* ```json block or is the whole content.
C15_FenceThenRawFallback ==
    \A r \in Runs : \A i \in 1..Len(trace[r]) :
        IsReviewDocument(trace[r][i].completion) => ItemsReachedMapper(trace[r][i])

\* The same of the script src/src/main.ts alone.
C15_FallbackOfMain ==
    \A r \in Runs : \A i \in 1..Len(trace[r]) :
        (variant[r] = "main.ts" /\ IsReviewDocument(trace[r][i].completion))
            => ItemsReachedMapper(trace[r][i])

\* A run of src/src/main.ts that published the comment of an answer without
\* a ```json block.
C15_WitnessOfMain ==
    \E r \in Runs :
        /\ variant[r] = "main.ts" /\ Ended(r)
        /\ \E i \in 1..Len(trace[r]) :
               /\ ~trace[r][i].completion.fenced
               /\ IsReviewDocument(trace[r][i].completion)
               /\ trace[r][i].mapped.comments # <<>>
               /\ \E p \in Range(posts[r]) :
                      p.ok /\ Payload(p) \in Range(trace[r][i].mapped.comments)

\* --------------------------------------------------------------------- C16

\* The chunks of the reviewable files of a diff, file after file and chunk
\* after chunk, each as the completion request made for it.
RECURSIVE ExpectedCalls(_)
ExpectedCalls(files) ==
    IF files = <<>> THEN <<>>
    ELSE (IF Reviewable(Head(files).to)
          THEN [j \in 1..Len(Head(files).chunks) |->
                    Request("chat.completions.create", Head(files).to,
                            Head(files).chunks[j].content)]
          ELSE <<>>)
         \o ExpectedCalls(Tail(files))

CompletionCalls(r) == SelectSeq(requests[r], IsCompletionRequest)

\* The run went through analyzeCode to its end.
Analysed(r) ==
    \/ pc[r] \in {"createReviewComment", "createReview"}
    \/ posts[r] # <<>>
    \/ Ended(r) /\ exitCode[r] = 0 /\ event[r].action \in {"opened", "synchronize"}

\* C16: the completion requests of a run are, in order and one per chunk,
\* the chunks of the reviewable files, file after file and chunk after chunk:
\* a beginning of that sequence while the run analyses, all of it once the
\* analysis is over; at most one request is awaiting its answer, and the
\* next is made only when the last has returned or failed; no chunk, failed
\* or unusable as its answer may be, is sent twice.
C16_SequentialWithoutRetry ==
    \A r \in Runs :
        LET calls == CompletionCalls(r)
            expected == ExpectedCalls(prDiff)
        IN
        /\ Len(calls) <= Len(expected)
        /\ \A i \in 1..Len(calls) : calls[i] = expected[i]
        /\ \A i, j \in 1..Len(calls) : i # j => calls[i] # calls[j]
        /\ Len(trace[r]) <= Len(calls)
        /\ Len(calls) - Len(trace[r]) = (IF pc[r] = "getAIResponse" THEN 1 ELSE 0)
        /\ \A i \in 1..Len(trace[r]) :
               /\ trace[r][i].file.to = calls[i].base
               /\ trace[r][i].chunk.content = calls[i].head
        /\ Analysed(r) => Len(calls) = Len(expected) /\ Len(trace[r]) = Len(expected)

\* A run over two chunks whose first completion call failed: the second
\* chunk was sent next, the first was not sent again.
C16_Witness ==
    \E r \in Runs :
        /\ Ended(r) /\ exitCode[r] = 0
        /\ Len(CompletionCalls(r)) = 2
        /\ Len(trace[r]) = 2
        /\ ~trace[r][1].completion.ok
        /\ CompletionCalls(r)[1] # CompletionCalls(r)[2]

\* --------------------------------------------------------------------- C17

\* A request that publishes: createReviewComment of src/src/main.ts,
\* createReview of the older script.
IsPublishRequest(request) ==
    request.api \in {"pulls.createReviewComment", "pulls.createReview"}

IsListRequest(request) == request.api = "pulls.listReviewComments"

\* C17: when a request to create a comment or a review is made, the
\* completion request of every chunk, the last included, has been made and
\* has returned or failed, and (in the script that lists them) the existing
\* comments have been listed; a run that ends with a non-zero status after
\* its metadata, diff, list or completion requests has made no publishing
\* request and published nothing, whatever comments it had generated.
C17_PublishingFollowsAnalysis ==
    \A r \in Runs :
        /\ \A n \in 1..Len(requests[r]) :
               IsPublishRequest(requests[r][n]) =>
                   LET before == SubSeq(requests[r], 1, n - 1) IN
                   /\ Len(SelectSeq(before, IsCompletionRequest))
                          = Len(ExpectedCalls(prDiff))
                   /\ Len(trace[r]) = Len(ExpectedCalls(prDiff))
                   /\ idx[r] = Len(ExpectedCalls(prDiff)) + 1
                   /\ variant[r] = "main.ts" =>
                          \E m \in 1..Len(before) : IsListRequest(before[m])
        /\ posts[r] # <<>> => \E request \in Range(requests[r]) : IsPublishRequest(request)
        /\ (/\ Ended(r) /\ exitCode[r] # 0
            /\ \/ requests[r] = <<>>
               \/ ~IsPublishRequest(requests[r][Len(requests[r])]))
               => /\ posts[r] = <<>>
                  /\ \A request \in Range(requests[r]) : ~IsPublishRequest(request)

\* A run that generated a comment from its first chunk, ended with status 1
\* on its second chunk and published nothing.
C17_Witness ==
    \E r \in Runs :
        /\ Ended(r) /\ exitCode[r] = 1
        /\ Len(trace[r]) = 2
        /\ comments[r] # <<>>
        /\ \E c \in Range(comments[r]) : PassesFilter(c)
        /\ posts[r] = <<>>

\* --------------------------------------------------------------------- C18

\* Run r makes a create-comment request in this step.
Posting(r) == Len(posts'[r]) = Len(posts[r]) + 1

\* The comment of that request.
Posted(r) == Payload(posts'[r][Len(posts'[r])])

\* C18: when a create-comment request is made, the pull request holds no
\* review comment with the path, the line and the trimmed body of the
\* comment of the request, whoever posted it and whenever.
C18_NoDuplicatePosted ==
    [][\A r \in Runs :
           Posting(r) => \A i \in 1..Len(store) : ~SameComment(store[i], Posted(r))]_vars

\* The case of the same run: no request repeats a comment the run has
\* already published.
C18_NoDuplicateOfOwnComment ==
    [][\A r \in Runs :
           Posting(r) =>
               \A p \in Range(posts[r]) : p.ok => ~SameComment(Payload(p), Posted(r))]_vars

\* The case of the overlapping run: no request repeats a comment the other
\* run has already published.
C18_NoDuplicateOfOverlappingRun ==
    [][\A r \in Runs : \A other \in Runs \ {r} :
           Posting(r) =>
               \A p \in Range(posts[other]) :
                   p.ok => ~SameComment(Payload(p), Posted(r))]_vars

\* What the duplicate check does give: no request repeats a comment of the
\* list the run fetched.
C18_NoDuplicateOfFetched ==
    [][\A r \in Runs : Posting(r) => ~InLedger(r, Posted(r))]_vars

====
